---------------------------- MODULE Spec2Model ----------------------------
(***************************************************************************)
(* A model of the Rison decoder of rison-rs: the byte sources of           *)
(* src/de/read.rs (SliceRead, StrRead, IoRead), the error model of         *)
(* src/error.rs and the serde Deserializer, MapAccess and SeqAccess of     *)
(* src/de.rs.                                                              *)
(*                                                                         *)
(* Two specifications share the byte source operators:                    *)
(*   Spec      one top-level decode (from_trait) over a slice or a stream, *)
(*             as a stack machine with one action per handler;             *)
(*   SpecRead  a SliceRead, a StrRead and an IoRead driven in lockstep     *)
(*             over the same bytes by peek/discard/next/parse_str/         *)
(*             parse_ident.                                                *)
(*                                                                         *)
(* Bytes are their numeric values.  An input is a prefix of already        *)
(* examined bytes plus a flag telling whether the input is known to end    *)
(* there: a byte the program has not looked at yet is undetermined, and    *)
(* examining it picks it.  A byte source operation therefore yields a SET  *)
(* of outcomes, one per way the not yet examined input can continue.       *)
(***************************************************************************)
EXTENDS Integers, Sequences, FiniteSets, TLC

VARIABLES
    src,      \* Deserializer.read plus the session's scratch buffer
    stack,    \* the handlers in progress, innermost last
    out,      \* the calls made on the visitor so far, in order
    result,   \* what from_trait has returned, if it has
    target,   \* the type T that from_trait decodes into
    readers,  \* SpecRead: one byte source per kind, over the same bytes
    last      \* SpecRead: the outcome of the last operation, per kind

vars == <<src, stack, out, result, target, readers, last>>

--------------------------------------------------------------------------
(* Bounds of the model *)

\* longest input of a decode
MaxLen == 9
\* most bytes between the quotes of a literal that are not forced to be '
MaxLit == 2
\* longest run of identifier bytes of a decode's input
MaxRun == 1
\* longest input of SpecRead over CoreBytes
MaxScan == 5
\* longest input of SpecRead over ScanBytes
MaxTerm == 2

--------------------------------------------------------------------------
(* Bytes *)

SPACE == 32
BANG == 33
DOLLAR == 36
QUOTE == 39
LPAREN == 40
RPAREN == 41
STAR == 42
COMMA == 44
MINUS == 45
DIGIT == 49
COLON == 58
AT == 64
CH_f == 102
CH_n == 110
CH_t == 116
\* a byte that is never part of valid UTF-8
INVALID == 255

\* Option<u8>::None
None == 0 - 1

\* A faulty table, in which the comma ends no identifier.
CommaInIdentifiers == {SPACE, QUOTE, BANG, COLON, LPAREN, RPAREN, STAR, AT, DOLLAR}

NOT_ID_CHARS == {SPACE, QUOTE, BANG, COLON, LPAREN, RPAREN, COMMA, STAR, AT, DOLLAR}

--------------------------------------------------------------------------
(* Errors: a code and an optional position *)

MkError(code, position) == [code |-> code, position |-> position]

NoError == MkError("", None)

--------------------------------------------------------------------------
(* The input space of a decode *)

DecodeBytes == {BANG, QUOTE, LPAREN, RPAREN, COMMA, COLON, CH_n, CH_t, CH_f, DIGIT}

\* the bytes a quoted literal of a decode's input is made of
LitBytes == {QUOTE, BANG, CH_n, RPAREN}

IdentBytes == DecodeBytes \ NOT_ID_CHARS

\* The lexical state at the end of inp: q is the number of bytes since the
\* quote that is still open (None when no quote is open), esc tells whether
\* inp ends with the ! of an escape whose second byte is still to come.
RECURSIVE OpenLit(_, _, _)
OpenLit(inp, i, q) ==
    IF i > Len(inp) THEN [q |-> q, esc |-> FALSE]
    ELSE IF q = None
         THEN OpenLit(inp, i + 1, IF inp[i] = QUOTE THEN 0 ELSE None)
         ELSE IF inp[i] = QUOTE THEN OpenLit(inp, i + 1, None)
         ELSE IF inp[i] = BANG
              THEN IF i < Len(inp) THEN OpenLit(inp, i + 2, q + 2)
                   ELSE [q |-> q + 1, esc |-> TRUE]
              ELSE OpenLit(inp, i + 1, q + 1)

\* Number of identifier bytes that end inp, the letter of a marker apart.
RECURSIVE TrailingRun(_, _)
TrailingRun(inp, i) ==
    IF i = 0 \/ inp[i] \notin IdentBytes \/ (i > 1 /\ inp[i - 1] = BANG) THEN 0
    ELSE 1 + TrailingRun(inp, i - 1)

\* The bytes that may follow the examined prefix inp: inside a quoted
\* literal the bytes of LitBytes, and only ' once MaxLit bytes follow the
\* opening quote; outside, f only as the letter of a marker or right after
\* the marker !f, and a run of identifier bytes is one of n, t or a digit
\* followed by at most MaxRun - 1 times n.
Reveal(inp) ==
    IF Len(inp) >= MaxLen THEN {}
    ELSE LET q == OpenLit(inp, 1, None)
             run == TrailingRun(inp, Len(inp)) IN
         IF q.q # None
         THEN IF q.q >= MaxLit /\ ~q.esc THEN {QUOTE} ELSE LitBytes
         ELSE {b \in DecodeBytes :
                 /\ b = CH_f =>
                        \/ inp # <<>> /\ inp[Len(inp)] = BANG
                        \/ Len(inp) > 1 /\ inp[Len(inp)] = CH_f /\ inp[Len(inp) - 1] = BANG
                 /\ b \in IdentBytes \ {CH_f} =>
                        \/ run = 0
                        \/ b = CH_n /\ run < MaxRun}

--------------------------------------------------------------------------
(* Byte sources.  A source c has the fields
     inp, closed   the bytes examined so far, and whether the input ends there
     kind          "slice" (SliceRead), "str" (StrRead) or "io" (IoRead)
     index         SliceRead.index
     peeked        IoRead.peeked
     position      IoRead.position
     pulled        how many bytes IoRead.io has handed out
     scratch       the scratch buffer lent to parse_str and parse_ident     *)

NewRead(kind, inp, closed) ==
    [inp |-> inp, closed |-> closed, kind |-> kind, index |-> 0,
     peeked |-> None, position |-> 0, pulled |-> 0, scratch |-> <<>>]

\* The byte at zero-based offset i of the input, None past its end.
Fetch(c, i) ==
    IF i < Len(c.inp) THEN {[c |-> c, v |-> c.inp[i + 1]]}
    ELSE IF c.closed THEN {[c |-> c, v |-> None]}
    ELSE {[c |-> [c EXCEPT !.inp = Append(@, b)], v |-> b] : b \in Reveal(c.inp)}
         \cup {[c |-> [c EXCEPT !.closed = TRUE], v |-> None]}

SlicePeek(c) == Fetch(c, c.index)

IoPeek(c) ==
    IF c.peeked # None THEN {[c |-> c, v |-> c.peeked]}
    ELSE {[c |-> [o.c EXCEPT !.peeked = o.v,
                             !.pulled = IF o.v = None THEN @ ELSE @ + 1],
           v |-> o.v] : o \in Fetch(c, c.pulled)}

Peek(c) == IF c.kind = "io" THEN IoPeek(c) ELSE SlicePeek(c)

SliceDiscard(c) == [c EXCEPT !.index = @ + 1]

\* A faulty discard, which leaves the byte in the lookahead cell.
IoDiscardKeepsCell(c) == [c EXCEPT !.position = @ + 1]

IoDiscard(c) == [c EXCEPT !.peeked = None, !.position = @ + 1]

Discard(c) == IF c.kind = "io" THEN IoDiscard(c) ELSE SliceDiscard(c)

\* A faulty next, which discards also when peek returned no byte.
ReadNextAlwaysDiscards(c) == {[c |-> Discard(o.c), v |-> o.v] : o \in Peek(c)}

ReadNext(c) ==
    {[c |-> IF o.v # None THEN Discard(o.c) ELSE o.c, v |-> o.v] : o \in Peek(c)}

Position(c) == IF c.kind = "io" THEN c.position ELSE c.index

\* Outcomes of parse_str and parse_ident: Ok(Reference) or Err(Error).
StrOk(c, s, tag) == [c |-> c, ok |-> TRUE, s |-> s, tag |-> tag, err |-> NoError]

StrErr(c, code, position) ==
    [c |-> c, ok |-> FALSE, s |-> <<>>, tag |-> "", err |-> MkError(code, position)]

\* std::str::from_utf8's valid_up_to, for bytes that are ASCII or INVALID.
RECURSIVE ValidUpTo(_)
ValidUpTo(s) ==
    IF s = <<>> \/ Head(s) = INVALID THEN 0 ELSE 1 + ValidUpTo(Tail(s))

Utf8Ok(s) == ValidUpTo(s) = Len(s)

\* slice[from..to], zero-based and half open
Slice(inp, from, to) == SubSeq(inp, from + 1, to)

RECURSIVE SliceParseStrBytes(_, _)
SliceParseStrBytes(c, start) ==
    UNION {
      IF o.v = None THEN {StrErr(o.c, "EofString", Position(o.c))}
      ELSE IF o.v = QUOTE
      THEN IF o.c.scratch = <<>>
           THEN {StrOk([o.c EXCEPT !.index = @ + 1],
                       Slice(o.c.inp, start, o.c.index), "Borrowed")}
           ELSE LET sc == o.c.scratch \o Slice(o.c.inp, start, o.c.index) IN
                {StrOk([o.c EXCEPT !.scratch = sc, !.index = @ + 1], sc, "Copied")}
      ELSE IF o.v = BANG
      THEN LET c1 == [o.c EXCEPT !.scratch = @ \o Slice(o.c.inp, start, o.c.index),
                                 !.index = @ + 1] IN
           UNION {
             IF n.v = None THEN {StrErr(n.c, "EofString", Position(n.c))}
             ELSE IF n.v \in {BANG, QUOTE}
             THEN SliceParseStrBytes([n.c EXCEPT !.scratch = Append(@, n.v)], n.c.index)
             ELSE {StrErr(n.c, "InvalidEscape", Position(n.c))}
             : n \in ReadNext(c1) }
      ELSE SliceParseStrBytes([o.c EXCEPT !.index = @ + 1], start)
      : o \in Fetch(c, c.index) }

RECURSIVE SliceParseIdentBytes(_, _)
SliceParseIdentBytes(c, start) ==
    UNION {
      IF o.v # None /\ o.v \notin NOT_ID_CHARS
      THEN SliceParseIdentBytes([o.c EXCEPT !.index = @ + 1], start)
      ELSE {StrOk(o.c, Slice(o.c.inp, start, o.c.index), "Borrowed")}
      : o \in Fetch(c, c.index) }

SliceParseStr(c) ==
    LET start_position == Position(c) IN
    { IF r.ok /\ ~Utf8Ok(r.s)
      THEN StrErr(r.c, "InvalidUnicode", start_position + ValidUpTo(r.s))
      ELSE r
      : r \in SliceParseStrBytes(c, c.index) }

SliceParseIdent(c) ==
    LET start_position == Position(c) IN
    { IF ~Utf8Ok(r.s)
      THEN StrErr(r.c, "InvalidUnicode", start_position + ValidUpTo(r.s))
      ELSE StrOk(r.c, r.s, "Copied")
      : r \in SliceParseIdentBytes(c, c.index) }

StrParseStr(c) == SliceParseStrBytes(c, c.index)

StrParseIdent(c) == SliceParseIdentBytes(c, c.index)

RECURSIVE IoParseStrLoop(_, _)
IoParseStrLoop(c, start_position) ==
    UNION {
      IF o.v = None THEN {StrErr(o.c, "EofString", Position(o.c))}
      ELSE IF o.v = QUOTE
      THEN LET c1 == Discard(o.c) IN
           IF Utf8Ok(c1.scratch) THEN {StrOk(c1, c1.scratch, "Copied")}
           ELSE {StrErr(c1, "InvalidUnicode", start_position + ValidUpTo(c1.scratch))}
      ELSE IF o.v = BANG
      THEN UNION {
             IF n.v = None THEN {StrErr(n.c, "EofString", Position(n.c))}
             ELSE IF n.v \in {BANG, QUOTE}
             THEN IoParseStrLoop([n.c EXCEPT !.scratch = Append(@, n.v)], start_position)
             ELSE {StrErr(n.c, "InvalidMarker", Position(n.c))}
             : n \in ReadNext(Discard(o.c)) }
      ELSE IoParseStrLoop(Discard([o.c EXCEPT !.scratch = Append(@, o.v)]), start_position)
      : o \in Peek(c) }

IoParseStr(c) == IoParseStrLoop(c, Position(c))

RECURSIVE IoParseIdentLoop(_, _)
IoParseIdentLoop(c, start_position) ==
    UNION {
      IF o.v # None /\ o.v \notin NOT_ID_CHARS
      THEN IoParseIdentLoop(Discard([o.c EXCEPT !.scratch = Append(@, o.v)]), start_position)
      ELSE IF Utf8Ok(o.c.scratch) THEN {StrOk(o.c, o.c.scratch, "Copied")}
           ELSE {StrErr(o.c, "InvalidUnicode", start_position + ValidUpTo(o.c.scratch))}
      : o \in Peek(c) }

IoParseIdent(c) == IoParseIdentLoop(c, Position(c))

\* Read::parse_ident and Read::parse_str of the source's kind
ParseIdent(c) ==
    IF c.kind = "io" THEN IoParseIdent(c)
    ELSE IF c.kind = "str" THEN StrParseIdent(c)
    ELSE SliceParseIdent(c)

\* A faulty parse_str, which reads the literal as an identifier.
ParseStrAsIdent(c) == ParseIdent(c)

ParseStr(c) ==
    IF c.kind = "io" THEN IoParseStr(c)
    ELSE IF c.kind = "str" THEN StrParseStr(c)
    ELSE SliceParseStr(c)

\* A faulty session, which never clears its scratch buffer.
KeepScratch(c) == c

\* The session clears its scratch buffer before each string or identifier parse.
ClearScratch(c) == [c EXCEPT !.scratch = <<>>]

--------------------------------------------------------------------------
(* The Deserializer.  A handler, given the byte source, yields a set of
   outcomes h:
     h.c     the byte source afterwards
     h.r     "ok" (a visitor call returned a value), "err", "panic",
             "visit_seq", "visit_map" (the visitor is handed an accessor),
             "visit_some" (the visitor is handed the deserializer again)
     h.evs   the calls made on the visitor
     h.err   the error of "err"
     h.s     the string handed to visit_string                              *)

\* Error {}: the error de.rs constructs has neither a code nor a position.
BareError == MkError("Unspecified", None)

\* serde::de::Error::custom
CustomError == MkError("Message", None)

Ev(e, s) == [ev |-> e, s |-> s]

Handled(c, r, evs, err, s) == [c |-> c, r |-> r, evs |-> evs, err |-> err, s |-> s]

Value(c, e) == Handled(c, "ok", <<Ev(e, <<>>)>>, NoError, <<>>)

Fail(c, err) == Handled(c, "err", <<>>, err, <<>>)

Visit(c, r, e) == Handled(c, r, <<Ev(e, <<>>)>>, NoError, <<>>)

\* todo!()
Todo(c) == Handled(c, "panic", <<>>, NoError, <<>>)

\* visitor.visit_string of what parse_str or parse_ident returned
VisitString(S) ==
    { IF r.ok THEN Handled(r.c, "ok", <<Ev("str", r.s)>>, NoError, r.s)
      ELSE Fail(r.c, r.err) : r \in S }

IsNumberStart(b) == b = MINUS \/ b \in 48..57

DeserializeAny(c) ==
    UNION {
      IF p.v = None THEN {Fail(p.c, BareError)}
      ELSE IF p.v = BANG
      THEN UNION {
             IF q.v = None THEN {Fail(q.c, BareError)}
             ELSE IF q.v = CH_n THEN {Value(Discard(q.c), "unit")}
             ELSE IF q.v = CH_t THEN {Value(Discard(q.c), "true")}
             ELSE IF q.v = CH_f THEN {Value(Discard(q.c), "false")}
             ELSE IF q.v = LPAREN THEN {Visit(Discard(q.c), "visit_seq", "seq")}
             ELSE {Fail(q.c, BareError)}
             : q \in Peek(Discard(p.c)) }
      ELSE IF IsNumberStart(p.v) THEN {Todo(p.c)}
      ELSE IF p.v = QUOTE THEN VisitString(ParseStr(ClearScratch(Discard(p.c))))
      ELSE IF p.v = LPAREN THEN {Visit(Discard(p.c), "visit_map", "map")}
      ELSE VisitString(ParseIdent(ClearScratch(p.c)))
      : p \in Peek(c) }

DeserializeBool(c) ==
    UNION {
      IF p.v = None THEN {Fail(p.c, BareError)}
      ELSE IF p.v = BANG
      THEN { IF q.v = CH_t THEN Value(q.c, "true")
             ELSE IF q.v = CH_f THEN Value(q.c, "false")
             ELSE Fail(q.c, BareError)
             : q \in ReadNext(Discard(p.c)) }
      ELSE {Fail(p.c, BareError)}
      : p \in Peek(c) }

DeserializeStr(c) ==
    UNION {
      IF p.v = None THEN {Fail(p.c, BareError)}
      ELSE IF p.v = BANG THEN {Fail(p.c, BareError)}
      ELSE IF p.v = QUOTE THEN VisitString(ParseStr(ClearScratch(Discard(p.c))))
      ELSE IF IsNumberStart(p.v) THEN {Todo(p.c)}
      ELSE VisitString(ParseIdent(ClearScratch(p.c)))
      : p \in Peek(c) }

\* A faulty deserialize_option, which forwards to deserialize_any.
DeserializeOptionAsAny(c) == DeserializeAny(c)

DeserializeOption(c) ==
    UNION {
      IF p.v = BANG
      THEN { IF q.v # CH_n THEN Fail(q.c, BareError) ELSE Value(q.c, "none")
             : q \in ReadNext(Discard(p.c)) }
      ELSE {Visit(p.c, "visit_some", "some")}
      : p \in Peek(c) }

DeserializeUnit(c) ==
    UNION {
      IF p.v = None THEN {Fail(p.c, BareError)}
      ELSE IF p.v = BANG
      THEN { IF q.v = None THEN Fail(q.c, BareError)
             ELSE IF q.v = CH_n THEN Value(Discard(q.c), "unit")
             ELSE Fail(q.c, BareError)
             : q \in Peek(Discard(p.c)) }
      ELSE {Fail(p.c, BareError)}
      : p \in Peek(c) }

DeserializeSeq(c) ==
    UNION {
      IF p.v = None THEN {Fail(p.c, BareError)}
      ELSE IF p.v = BANG
      THEN { IF q.v = None THEN Fail(q.c, BareError)
             ELSE IF q.v # LPAREN THEN Fail(q.c, BareError)
             ELSE Visit(Discard(q.c), "visit_seq", "seq")
             : q \in Peek(Discard(p.c)) }
      ELSE {Fail(p.c, BareError)}
      : p \in Peek(c) }

DeserializeMap(c) ==
    { IF p.v = None THEN Fail(p.c, BareError)
      ELSE IF p.v = LPAREN THEN Visit(Discard(p.c), "visit_map", "map")
      ELSE Fail(p.c, BareError)
      : p \in Peek(c) }

DeserializeStruct(c) ==
    { IF p.v = None THEN Fail(p.c, BareError)
      ELSE IF p.v = LPAREN THEN Visit(Discard(p.c), "visit_map", "map")
      ELSE IF p.v = BANG THEN Todo(p.c)
      ELSE Fail(p.c, BareError)
      : p \in Peek(c) }

DeserializeIgnoredAny(c) == {Todo(c)}

\* The first half of MapAccess::next_key_seed and of
\* SeqAccess::next_element_seed, up to the call of seed.deserialize:
\* r is "none" (Ok(None)), "err" or "seed" (seed.deserialize is called next).
Asked(c, r, first) == [c |-> c, r |-> r, first |-> first]

\* A faulty accessor, which ends the sequence after its first element.
NextElementSeedOnce(c, first) ==
    { IF p.v = None THEN Asked(p.c, "err", first)
      ELSE IF first /\ p.v # RPAREN THEN Asked(p.c, "seed", FALSE)
      ELSE Asked(p.c, "none", first)
      : p \in Peek(c) }

NextElementSeed(c, first) ==
    UNION {
      IF p.v = None THEN {Asked(p.c, "err", first)}
      ELSE IF p.v = RPAREN THEN {Asked(p.c, "none", first)}
      ELSE IF p.v = COMMA /\ ~first
      THEN { IF q.v = None THEN Asked(q.c, "err", first) ELSE Asked(q.c, "seed", first)
             : q \in Peek(Discard(p.c)) }
      ELSE IF first THEN {Asked(p.c, "seed", FALSE)}
      ELSE {Asked(p.c, "err", first)}
      : p \in Peek(c) }

NextKeySeed(c, first) ==
    UNION {
      IF p.v = None THEN {Asked(p.c, "err", first)}
      ELSE IF p.v = RPAREN THEN {Asked(p.c, "none", first)}
      ELSE IF p.v = COMMA /\ ~first
      THEN { IF q.v = None THEN Asked(q.c, "err", first) ELSE Asked(q.c, "seed", first)
             : q \in Peek(Discard(p.c)) }
      ELSE IF first THEN {Asked(p.c, "seed", FALSE)}
      ELSE {Asked(p.c, "err", first)}
      : p \in Peek(c) }

\* A faulty accessor, which leaves the colon to the value.
NextValueSeedKeepsColon(c) ==
    { IF p.v = None THEN Asked(p.c, "err", FALSE)
      ELSE IF p.v = COLON THEN Asked(p.c, "seed", FALSE)
      ELSE Asked(p.c, "err", FALSE)
      : p \in Peek(c) }

\* The first half of MapAccess::next_value_seed
NextValueSeed(c) ==
    { IF p.v = None THEN Asked(p.c, "err", FALSE)
      ELSE IF p.v = COLON THEN Asked(Discard(p.c), "seed", FALSE)
      ELSE Asked(p.c, "err", FALSE)
      : p \in Peek(c) }

\* The end of a container's handler, after visit_seq or visit_map returned
\* ret: the closing ) is looked for and eaten, whatever ret is.
CloseParen(c, retOk) ==
    { IF p.v = RPAREN
      THEN [c |-> Discard(p.c), ok |-> retOk, err |-> IF retOk THEN NoError ELSE BareError]
      ELSE [c |-> p.c, ok |-> FALSE, err |-> BareError]
      : p \in Peek(c) }

\* Deserializer::end
DeserializerEnd(c) ==
    { [c |-> p.c, ok |-> p.v = None, err |-> IF p.v = None THEN NoError ELSE BareError]
      : p \in Peek(c) }

--------------------------------------------------------------------------
(* The visitors.  T::deserialize calls the handler of T's shape:
     "any"     a self-describing tree value (deserialize_any); its elements
               and values are tree values, its keys strings
     "bool" "str" "unit"
     "option"  Option of a tree value
     "seq"     a growable sequence of tree values (deserialize_seq)
     "map"     a map from strings to tree values (deserialize_map)
     "struct"  a record with the two string fields n and t
               (deserialize_struct); any other key's value is ignored
               (deserialize_ignored_any)
     "empty"   a record with no field
   A sequence or map visitor asks for items until the accessor returns
   None or an error.                                                        *)

Targets == {"any", "bool", "str", "unit", "option", "seq", "map", "struct", "empty"}

Records == {"struct", "empty"}

FieldsOf(ty) == IF ty = "struct" THEN {<<CH_n>>, <<CH_t>>} ELSE {}

\* Frames of the stack:
\*   k = "call"   T::deserialize(de) for T = ty is about to run
\*   k = "seq"    visit_seq of the visitor ty is running, or has returned
\*   k = "map"    visit_map of the visitor ty is running, or has returned
\* phase: "next" (seq), "key", "value" (map): what the visitor asks for next;
\*        "end": the visitor has returned ok or err
Frame(k, ty) ==
    [k |-> k, ty |-> ty, first |-> TRUE, n |-> 0,
     phase |-> IF k = "seq" THEN "next" ELSE IF k = "map" THEN "key" ELSE "",
     ok |-> TRUE, err |-> NoError, seen |-> {}, vty |-> ""]

Top == stack[Len(stack)]

Pop(stk) == SubSeq(stk, 1, Len(stk) - 1)

Running == [st |-> "running", at |-> "", err |-> NoError]

Returned(f, err) == [f EXCEPT !.phase = "end", !.ok = err = NoError, !.err = err]

\* A call returns ok (with the string s, if it made one) or err to the
\* frame below it: to the visitor loop of a container, through the tail of
\* next_element_seed, next_key_seed or next_value_seed, or to from_trait.
Deliver(stk, ok, err, s) ==
    IF stk = <<>>
    THEN [stack |-> <<>>,
          result |-> IF ok THEN Running ELSE [st |-> "err", at |-> "value", err |-> err]]
    ELSE LET f == stk[Len(stk)]
             g == IF ~ok THEN Returned(f, err)
                  ELSE IF f.k = "seq" THEN [f EXCEPT !.n = @ + 1]
                  ELSE IF f.phase = "value" THEN [f EXCEPT !.n = @ + 1, !.phase = "key"]
                  ELSE IF f.ty \notin Records THEN [f EXCEPT !.phase = "value", !.vty = "any"]
                  ELSE IF s \notin FieldsOf(f.ty)
                  THEN [f EXCEPT !.phase = "value", !.vty = "ignored"]
                  ELSE IF s \in f.seen THEN Returned(f, CustomError)
                  ELSE [f EXCEPT !.phase = "value", !.vty = "str", !.seen = @ \cup {s}]
         IN [stack |-> Append(Pop(stk), g), result |-> Running]

\* What the handler's outcome h does to the decode.
Apply(h) ==
    /\ src' = h.c
    /\ out' = out \o h.evs
    /\ IF h.r = "panic"
       THEN /\ stack' = <<>>
            /\ result' = [st |-> "panic", at |-> "value", err |-> NoError]
       ELSE IF h.r \in {"ok", "err"}
       THEN LET d == Deliver(Pop(stack), h.r = "ok", h.err, h.s) IN
            /\ stack' = d.stack
            /\ result' = d.result
       ELSE /\ stack' = Append(Pop(stack),
                               IF h.r = "visit_seq" THEN Frame("seq", Top.ty)
                               ELSE IF h.r = "visit_map" THEN Frame("map", Top.ty)
                               ELSE Frame("call", "any"))
            /\ result' = result
    /\ UNCHANGED <<target, readers, last>>

Calling(tys) ==
    /\ result.st = "running"
    /\ stack # <<>>
    /\ Top.k = "call"
    /\ Top.ty \in tys

Visiting(k, phase) ==
    /\ result.st = "running"
    /\ stack # <<>>
    /\ Top.k = k
    /\ Top.phase = phase

ReadIdle ==
    /\ readers = [k \in {"slice"} |-> NewRead("slice", <<>>, TRUE)]
    /\ last = [k \in {"slice"} |-> [op |-> ""]]

\* from_trait: Deserializer::new(read), then T::deserialize(&mut de)
Init ==
    /\ \E kind \in {"slice", "io"} : src = NewRead(kind, <<>>, FALSE)
    /\ target \in Targets
    /\ stack = <<Frame("call", target)>>
    /\ out = <<>>
    /\ result = Running
    /\ ReadIdle

DoDeserializeAny == Calling({"any"}) /\ \E h \in DeserializeAny(src) : Apply(h)

DoDeserializeBool == Calling({"bool"}) /\ \E h \in DeserializeBool(src) : Apply(h)

DoDeserializeStr == Calling({"str"}) /\ \E h \in DeserializeStr(src) : Apply(h)

DoDeserializeOption == Calling({"option"}) /\ \E h \in DeserializeOption(src) : Apply(h)

DoDeserializeUnit == Calling({"unit"}) /\ \E h \in DeserializeUnit(src) : Apply(h)

DoDeserializeSeq == Calling({"seq"}) /\ \E h \in DeserializeSeq(src) : Apply(h)

DoDeserializeMap == Calling({"map"}) /\ \E h \in DeserializeMap(src) : Apply(h)

DoDeserializeStruct == Calling(Records) /\ \E h \in DeserializeStruct(src) : Apply(h)

DoDeserializeIgnoredAny ==
    Calling({"ignored"}) /\ \E h \in DeserializeIgnoredAny(src) : Apply(h)

\* What the accessor's answer a does to the container's frame: Ok(None) and
\* Err end the visitor's loop, otherwise seed.deserialize is called for ty.
Ask(a, ty, endErr) ==
    /\ src' = a.c
    /\ out' = IF a.r = "none" THEN Append(out, Ev("end", <<>>)) ELSE out
    /\ stack' = IF a.r = "none" THEN Append(Pop(stack), Returned(Top, endErr))
                ELSE IF a.r = "err" THEN Append(Pop(stack), Returned(Top, BareError))
                ELSE Append(Append(Pop(stack), [Top EXCEPT !.first = a.first]),
                            Frame("call", ty))
    /\ UNCHANGED <<result, target, readers, last>>

DoNextElementSeed ==
    /\ Visiting("seq", "next")
    /\ \E a \in NextElementSeed(src, Top.first) : Ask(a, "any", NoError)

\* The record's visitor fails with a custom error when a field is missing.
DoNextKeySeed ==
    /\ Visiting("map", "key")
    /\ \E a \in NextKeySeed(src, Top.first) :
          Ask(a, "str",
              IF Top.seen # FieldsOf(Top.ty) THEN CustomError ELSE NoError)

DoNextValueSeed ==
    /\ Visiting("map", "value")
    /\ \E a \in NextValueSeed(src) : Ask([a EXCEPT !.first = Top.first], Top.vty, NoError)

\* The end of deserialize_any (tuple branch) and of deserialize_seq
DoSeqEnd ==
    /\ Visiting("seq", "end")
    /\ \E e \in CloseParen(src, Top.ok) :
          LET d == Deliver(Pop(stack), e.ok, e.err, <<>>) IN
          /\ src' = e.c
          /\ stack' = d.stack
          /\ result' = d.result
    /\ UNCHANGED <<out, target, readers, last>>

\* The end of deserialize_any (object branch), deserialize_map and
\* deserialize_struct
DoMapEnd ==
    /\ Visiting("map", "end")
    /\ \E e \in CloseParen(src, Top.ok) :
          LET d == Deliver(Pop(stack), e.ok, e.err, <<>>) IN
          /\ src' = e.c
          /\ stack' = d.stack
          /\ result' = d.result
    /\ UNCHANGED <<out, target, readers, last>>

\* from_trait: de.end()?; Ok(value)
DoEnd ==
    /\ result.st = "running"
    /\ stack = <<>>
    /\ \E e \in DeserializerEnd(src) :
          /\ src' = e.c
          /\ result' = IF e.ok THEN [st |-> "ok", at |-> "end", err |-> NoError]
                       ELSE [st |-> "err", at |-> "end", err |-> e.err]
    /\ UNCHANGED <<stack, out, target, readers, last>>

Next ==
    \/ DoDeserializeAny
    \/ DoDeserializeBool
    \/ DoDeserializeStr
    \/ DoDeserializeOption
    \/ DoDeserializeUnit
    \/ DoDeserializeSeq
    \/ DoDeserializeMap
    \/ DoDeserializeStruct
    \/ DoDeserializeIgnoredAny
    \/ DoNextElementSeed
    \/ DoNextKeySeed
    \/ DoNextValueSeed
    \/ DoSeqEnd
    \/ DoMapEnd
    \/ DoEnd

Spec == Init /\ [][Next]_vars

--------------------------------------------------------------------------
(* SpecRead: the byte sources driven in lockstep over the same bytes *)

\* every identifier terminator, an identifier byte and an invalid byte
ScanBytes == NOT_ID_CHARS \cup {CH_n, INVALID}

\* the bytes that matter to a quoted literal
CoreBytes == {QUOTE, BANG, COMMA, CH_n, INVALID}

RECURSIVE SeqsUpTo(_, _)
SeqsUpTo(S, n) ==
    IF n = 0 THEN {<<>>}
    ELSE LET shorter == SeqsUpTo(S, n - 1) IN
         shorter \cup {Append(s, b) : s \in {t \in shorter : Len(t) = n - 1}, b \in S}

ScanInputs == SeqsUpTo(ScanBytes, MaxTerm) \cup SeqsUpTo(CoreBytes, MaxScan)

\* StrRead::new takes a &str: it exists only over valid UTF-8.
KindsOver(inp) == IF Utf8Ok(inp) THEN {"slice", "str", "io"} ELSE {"slice", "io"}

Kinds == DOMAIN readers

NoOp == [op |-> "", from |-> 0, ok |-> TRUE, v |-> None, s |-> <<>>, tag |-> "",
         err |-> NoError]

ByteOp(op, from, o) == [NoOp EXCEPT !.op = op, !.from = from, !.v = o.v]

StrOp(op, from, r) ==
    [NoOp EXCEPT !.op = op, !.from = from, !.ok = r.ok, !.s = r.s, !.tag = r.tag,
                 !.err = r.err]

\* the one outcome of an operation over an input that is fully known
Only(S) == CHOOSE o \in S : TRUE

DecodeIdle ==
    /\ src = NewRead("slice", <<>>, TRUE)
    /\ stack = <<>>
    /\ out = <<>>
    /\ result = [st |-> "idle", at |-> "", err |-> NoError]
    /\ target = ""

InitRead ==
    /\ DecodeIdle
    /\ \E inp \in ScanInputs :
          readers = [k \in KindsOver(inp) |-> NewRead(k, inp, TRUE)]
    /\ last = [k \in Kinds |-> NoOp]

RPeek ==
    /\ readers' = [k \in Kinds |-> Only(Peek(readers[k])).c]
    /\ last' = [k \in Kinds |->
                  ByteOp("peek", Position(readers[k]), Only(Peek(readers[k])))]
    /\ UNCHANGED <<src, stack, out, result, target>>

\* Deserializer::eat_char is called on a byte that peek has just returned
RDiscard ==
    /\ \A k \in Kinds : last[k].op = "peek" /\ last[k].v # None
    /\ readers' = [k \in Kinds |-> Discard(readers[k])]
    /\ last' = [k \in Kinds |-> [NoOp EXCEPT !.op = "discard",
                                              !.from = Position(readers[k])]]
    /\ UNCHANGED <<src, stack, out, result, target>>

RNext ==
    /\ readers' = [k \in Kinds |-> Only(ReadNext(readers[k])).c]
    /\ last' = [k \in Kinds |->
                  ByteOp("next", Position(readers[k]), Only(ReadNext(readers[k])))]
    /\ UNCHANGED <<src, stack, out, result, target>>

RParseStr ==
    /\ readers' = [k \in Kinds |-> Only(ParseStr(ClearScratch(readers[k]))).c]
    /\ last' = [k \in Kinds |->
                  StrOp("parse_str", Position(readers[k]),
                        Only(ParseStr(ClearScratch(readers[k]))))]
    /\ UNCHANGED <<src, stack, out, result, target>>

RParseIdent ==
    /\ readers' = [k \in Kinds |-> Only(ParseIdent(ClearScratch(readers[k]))).c]
    /\ last' = [k \in Kinds |->
                  StrOp("parse_ident", Position(readers[k]),
                        Only(ParseIdent(ClearScratch(readers[k]))))]
    /\ UNCHANGED <<src, stack, out, result, target>>

NextRead == RPeek \/ RDiscard \/ RNext \/ RParseStr \/ RParseIdent

SpecRead == InitRead /\ [][NextRead]_vars

--------------------------------------------------------------------------
(* Claims about the byte sources *)

\* What a quoted literal denotes: the literal starts at the one-based index i
\* of inp (its opening quote is before i), acc is what it denotes so far.
\* st is "ok" with the denoted bytes s and the offset end just after the
\* closing quote, "eof" for a literal that is not terminated, "bad" for one
\* with a ! that is followed by neither ! nor '.
RECURSIVE QuotedLiteral(_, _, _)
QuotedLiteral(inp, i, acc) ==
    IF i > Len(inp) THEN [st |-> "eof", s |-> acc, end |-> Len(inp)]
    ELSE IF inp[i] = QUOTE THEN [st |-> "ok", s |-> acc, end |-> i]
    ELSE IF inp[i] = BANG
    THEN IF i = Len(inp) THEN [st |-> "eof", s |-> acc, end |-> Len(inp)]
         ELSE IF inp[i + 1] \in {BANG, QUOTE}
              THEN QuotedLiteral(inp, i + 2, Append(acc, inp[i + 1]))
              ELSE [st |-> "bad", s |-> acc, end |-> i + 1]
    ELSE QuotedLiteral(inp, i + 1, Append(acc, inp[i]))

\* C3: parse_str, called with the opening quote consumed, on a terminated
\* literal with only valid escapes (and valid UTF-8) returns the bytes between
\* the quotes with !! replaced by ! and !' by ', everything else unchanged and
\* in order, and leaves the position just after the closing quote.
C3_ParseStrUnescapes ==
    \A k \in Kinds :
        last[k].op = "parse_str" =>
            LET lit == QuotedLiteral(readers[k].inp, last[k].from + 1, <<>>) IN
            (lit.st = "ok" /\ Utf8Ok(lit.s)) =>
                /\ last[k].ok
                /\ last[k].s = lit.s
                /\ Position(readers[k]) = lit.end

\* every kind has parsed the literal n!',' (a plain byte, an escape and a
\* terminator byte of identifiers) into n',
C3_Witness ==
    /\ Kinds = {"slice", "str", "io"}
    /\ \A k \in Kinds :
          /\ last[k].op = "parse_str"
          /\ readers[k].inp = <<CH_n, BANG, QUOTE, COMMA, QUOTE>>
          /\ last[k].from = 0
          /\ last[k].ok
          /\ last[k].s = <<CH_n, QUOTE, COMMA>>

C9_Terminators == {SPACE, QUOTE, BANG, COLON, LPAREN, RPAREN, COMMA, STAR, AT, DOLLAR}

\* the offset at which the maximal run of non-terminator bytes from from ends
RunEnd(inp, from) ==
    CHOOSE e \in from..Len(inp) :
        /\ \A j \in (from + 1)..e : inp[j] \notin C9_Terminators
        /\ e = Len(inp) \/ inp[e + 1] \in C9_Terminators

\* C9: parse_ident returns exactly the maximal run of bytes from the current
\* position that holds no terminator byte, unprocessed, leaves the position at
\* the first terminator without consuming it, and succeeds when the run is
\* ended by the end of the input.
C9_ParseIdentMaximalRun ==
    \A k \in Kinds :
        last[k].op = "parse_ident" =>
            LET e == RunEnd(readers[k].inp, last[k].from)
                run == Slice(readers[k].inp, last[k].from, e) IN
            /\ Position(readers[k]) = e
            /\ Utf8Ok(run) => last[k].ok /\ last[k].s = run

\* every kind has parsed the identifier nn of ,nn!! and stopped at the first !
C9_Witness ==
    \A k \in Kinds :
        /\ last[k].op = "parse_ident"
        /\ readers[k].inp = <<COMMA, CH_n, CH_n, BANG, BANG>>
        /\ last[k].from = 1
        /\ last[k].s = <<CH_n, CH_n>>

\* an identifier that runs to the end of the input
C9_WitnessEof ==
    \A k \in Kinds :
        /\ last[k].op = "parse_ident"
        /\ readers[k].inp = <<CH_n, CH_n>>
        /\ last[k].ok /\ last[k].s = <<CH_n, CH_n>>

\* C10: every operation has the same outcome over IoRead and over SliceRead:
\* the same byte or string and the same position on success, the same error
\* code at the same position on failure.
C10_SourceParity ==
    /\ last["io"].ok = last["slice"].ok
    /\ last["io"].v = last["slice"].v
    /\ last["io"].s = last["slice"].s
    /\ last["io"].err = last["slice"].err
    /\ Position(readers["io"]) = Position(readers["slice"])

--------------------------------------------------------------------------
(* The grammar of the values this decoder decodes

     value  := marker | qstring | object | tuple | ident
     marker := !n | !t | !f
     tuple  := !( [ value (, value)* ] )
     object := ( [ ident : value (, ident : value)* ] )
     ident  := a non-empty maximal run of bytes that are no terminators,
               not starting with - or a digit

   and what a value denotes, as the calls a visitor receives.  A reading
   has st "ok" (a value ends before the one-based index end and denotes
   evs), "bad" (no value starts here, however the input goes on) or "more"
   (the examined input ran out, and is not known to end there).             *)

Reading(st, end, evs) == [st |-> st, end |-> end, evs |-> evs]

Bad == Reading("bad", 0, <<>>)

\* the examined input has run out
RanOut(closed) == IF closed THEN Bad ELSE Reading("more", 0, <<>>)

DenotesIdent(inp, closed, i) ==
    IF i > Len(inp) THEN RanOut(closed)
    ELSE IF inp[i] \in C9_Terminators \/ IsNumberStart(inp[i]) THEN Bad
    ELSE LET e == RunEnd(inp, i - 1) IN
         IF e = Len(inp) /\ ~closed THEN RanOut(closed)
         ELSE Reading("ok", e + 1, <<Ev("str", Slice(inp, i - 1, e))>>)

RECURSIVE DenotesValue(_, _, _), DenotesItems(_, _, _, _, _), DenotesEntries(_, _, _, _, _)
DenotesValue(inp, closed, i) ==
    IF i > Len(inp) THEN RanOut(closed)
    ELSE IF inp[i] = BANG
    THEN IF i + 1 > Len(inp) THEN RanOut(closed)
         ELSE IF inp[i + 1] = CH_n THEN Reading("ok", i + 2, <<Ev("unit", <<>>)>>)
         ELSE IF inp[i + 1] = CH_t THEN Reading("ok", i + 2, <<Ev("true", <<>>)>>)
         ELSE IF inp[i + 1] = CH_f THEN Reading("ok", i + 2, <<Ev("false", <<>>)>>)
         ELSE IF inp[i + 1] = LPAREN
         THEN DenotesItems(inp, closed, i + 2, TRUE, <<Ev("seq", <<>>)>>)
         ELSE Bad
    ELSE IF inp[i] = QUOTE
    THEN LET lit == QuotedLiteral(inp, i + 1, <<>>) IN
         IF lit.st = "ok" THEN Reading("ok", lit.end + 1, <<Ev("str", lit.s)>>)
         ELSE IF lit.st = "eof" THEN RanOut(closed)
         ELSE Bad
    ELSE IF inp[i] = LPAREN
    THEN DenotesEntries(inp, closed, i + 1, TRUE, <<Ev("map", <<>>)>>)
    ELSE DenotesIdent(inp, closed, i)

DenotesItems(inp, closed, i, first, evs) ==
    IF i > Len(inp) THEN RanOut(closed)
    ELSE IF inp[i] = RPAREN THEN Reading("ok", i + 1, Append(evs, Ev("end", <<>>)))
    ELSE IF ~first /\ inp[i] # COMMA THEN Bad
    ELSE LET v == DenotesValue(inp, closed, IF first THEN i ELSE i + 1) IN
         IF v.st # "ok" THEN v
         ELSE DenotesItems(inp, closed, v.end, FALSE, evs \o v.evs)

DenotesEntries(inp, closed, i, first, evs) ==
    IF i > Len(inp) THEN RanOut(closed)
    ELSE IF inp[i] = RPAREN THEN Reading("ok", i + 1, Append(evs, Ev("end", <<>>)))
    ELSE IF ~first /\ inp[i] # COMMA THEN Bad
    ELSE LET k == DenotesIdent(inp, closed, IF first THEN i ELSE i + 1) IN
         IF k.st # "ok" THEN k
         ELSE IF k.end > Len(inp) THEN RanOut(closed)
         ELSE IF inp[k.end] # COLON THEN Bad
         ELSE LET v == DenotesValue(inp, closed, k.end + 1) IN
              IF v.st # "ok" THEN v
              ELSE DenotesEntries(inp, closed, v.end, FALSE, (evs \o k.evs) \o v.evs)

\* The examined input read as a whole document: one value, then the end.
DenotesDocument(inp, closed) ==
    LET v == DenotesValue(inp, closed, 1) IN
    IF v.st # "ok" THEN v
    ELSE IF v.end <= Len(inp) THEN Bad
    ELSE IF ~closed THEN RanOut(closed)
    ELSE v

Finished == result.st \in {"ok", "err", "panic"}

\* the value has been constructed, or its construction has failed
ValueDone == stack = <<>>

StartsWith(pre) == Len(src.inp) >= Len(pre) /\ SubSeq(src.inp, 1, Len(pre)) = pre

--------------------------------------------------------------------------
(* Claims about the decode *)

\* C1: from_trait returns Ok only if every input byte was consumed by the one
\* value, and when a byte remains after the value it fails with TrailingChars.
C1_OneValueThenEnd ==
    /\ result.st = "ok" => src.closed /\ Position(src) = Len(src.inp)
    /\ (result.st = "err" /\ result.at = "end") => result.err.code = "TrailingChars"

\* C2: for every input and every target shape the decode returns a value or
\* an Error: it never aborts.
C2_NeverAborts == result.st # "panic"

\* C4: !t decodes to true and !f to false (deserialize_any, deserialize_bool),
\* !n to absence (deserialize_any, deserialize_unit, deserialize_option), and
\* exactly the two bytes of the marker are consumed.
MarkerDecodes(marker, targets, ev) ==
    (ValueDone /\ StartsWith(marker) /\ target \in targets) =>
        /\ result.at # "value"
        /\ out = <<Ev(ev, <<>>)>>
        /\ Position(src) = 2
        /\ result.st = "running" => src.inp = marker

C4_Markers ==
    /\ MarkerDecodes(<<BANG, CH_t>>, {"any", "bool"}, "true")
    /\ MarkerDecodes(<<BANG, CH_f>>, {"any", "bool"}, "false")
    /\ MarkerDecodes(<<BANG, CH_n>>, {"any", "unit"}, "unit")
    /\ MarkerDecodes(<<BANG, CH_n>>, {"option"}, "none")

\* deserialize_bool has returned false for !f, over a stream
C4_Witness ==
    /\ target = "bool"
    /\ src.kind = "io"
    /\ result.st = "ok"
    /\ src.inp = <<BANG, CH_f>>
    /\ out = <<Ev("false", <<>>)>>

\* C5: in optional-value mode every input that decodes as a value and is not
\* !n yields Some of that value, also when it begins with !.
C5_OptionPresence ==
    (target = "option" /\ Finished /\ src.inp # <<BANG, CH_n>>) =>
        LET d == DenotesDocument(src.inp, src.closed) IN
        /\ result.st # "ok" => d.st = "bad"
        /\ (result.st = "ok" /\ d.st = "ok") => out = <<Ev("some", <<>>)>> \o d.evs

C8_Numbers ==
    (target = "any" /\ ValueDone /\ src.inp # <<>> /\ IsNumberStart(src.inp[1])) =>
        /\ result.at # "value"
        /\ out # <<>> /\ out[1].ev = "i32"

--------------------------------------------------------------------------
(* Claims about errors *)

\* C11: every error the parser itself detects (every code but Io and Message)
\* carries a byte position.
C11_ParserErrorsHavePosition ==
    (result.st = "err" /\ result.err.code \notin {"Message", "Io"}) =>
        result.err.position # None

\* C12: on every byte source parse_str fails with InvalidEscape when a ! of
\* the literal is followed by a byte other than ! or ', and with EofString
\* when the input ends before the closing quote, also directly after a !.
C12_ParseStrErrors ==
    \A k \in Kinds :
        last[k].op = "parse_str" =>
            LET lit == QuotedLiteral(readers[k].inp, last[k].from + 1, <<>>) IN
            /\ lit.st = "bad" => ~last[k].ok /\ last[k].err.code = "InvalidEscape"
            /\ lit.st = "eof" => ~last[k].ok /\ last[k].err.code = "EofString"

\* The byte at zero-based offset i of the input, None when the input ends there.
ByteAt(c, i) == IF i < Len(c.inp) THEN c.inp[i + 1] ELSE None

\* the container's visitor has been answered with the error code
Failed(f, code) == f.phase = "end" /\ ~f.ok /\ f.err.code = code

\* C13: a request for the next element fails with ExpectedListSepOrEnd when
\* the next byte is , and no element has been produced yet, and when an
\* element has been produced and the next byte is neither , nor ); a , is
\* consumed only after a produced element; ) ends the sequence and is not
\* consumed by the accessor.
C13_SeqAccessorGrammar ==
    [][Visiting("seq", "next") =>
          LET p == Position(src)
              b == ByteAt(src', p)
              f == stack'[Len(stack)] IN
          /\ (b = COMMA /\ Top.first) => Failed(f, "ExpectedListSepOrEnd")
          /\ (b \notin {COMMA, RPAREN, None} /\ ~Top.first) =>
                Failed(f, "ExpectedListSepOrEnd")
          /\ Position(src') # p => b = COMMA /\ ~Top.first /\ Position(src') = p + 1
          /\ b = RPAREN => Position(src') = p /\ f.phase = "end" /\ f.ok]_vars

\* C14: after a key, a request for the value fails with ExpectedColon when
\* the next byte is not :, and otherwise consumes exactly that : before the
\* value is parsed.
C14_MapAccessorColon ==
    [][Visiting("map", "value") =>
          LET p == Position(src)
              b == ByteAt(src', p)
              f == stack'[Len(stack)] IN
          /\ b \notin {COLON, None} => Failed(f, "ExpectedColon") /\ Position(src') = p
          /\ b = COLON =>
                /\ Position(src') = p + 1
                /\ Len(stack') = Len(stack) + 1
                /\ stack'[Len(stack')].k = "call"
          /\ Len(stack') > Len(stack) => b = COLON]_vars

\* C15: when the construction of an element, a key or a value fails, that
\* same error (code and position) is what the container returns to its
\* caller, and so what the decode fails with: the check for the closing )
\* does not replace it.
C15_ErrorsPropagate ==
    [][((Visiting("seq", "end") \/ Visiting("map", "end")) /\ ~Top.ok) =>
          IF Len(stack) = 1
          THEN result'.st = "err" /\ result'.err = Top.err
          ELSE LET g == stack'[Len(stack) - 1] IN
               g.phase = "end" /\ ~g.ok /\ g.err = Top.err]_vars

--------------------------------------------------------------------------
(* Claims about the lookahead cell and the results of the byte sources *)

\* The bytes the source has still to deliver: the lookahead cell, if it
\* holds a byte, then the bytes not yet taken from the input.
ToDeliver(c) ==
    IF c.kind = "io"
    THEN (IF c.peeked = None THEN <<>> ELSE <<c.peeked>>)
            \o Slice(c.inp, c.pulled, Len(c.inp))
    ELSE Slice(c.inp, c.index, Len(c.inp))

\* C16: on every byte source a peek returns the byte at the position and
\* changes neither the position nor the bytes still to be delivered, however
\* often it is repeated; a discard after a peek that returned a byte empties
\* the lookahead cell and advances the position by exactly one, so that the
\* next peek returns the next byte of the input.
C16_LookaheadCell ==
    \A k \in Kinds :
        LET c == readers[k] IN
        /\ ToDeliver(c) = Slice(c.inp, Position(c), Len(c.inp))
        /\ last[k].op = "peek" =>
              /\ Position(c) = last[k].from
              /\ last[k].v = ByteAt(c, last[k].from)
        /\ last[k].op = "discard" =>
              /\ Position(c) = last[k].from + 1
              /\ k = "io" => c.peeked = None

\* the stream source has been peeked at, discarded from and peeked at again
C16_Witness ==
    /\ "io" \in Kinds
    /\ readers["io"].inp = <<CH_n, COMMA>>
    /\ last["io"].op = "peek"
    /\ last["io"].from = 1
    /\ last["io"].v = COMMA

\* the literal that starts at offset from and ends before offset end has a !
HasEscape(inp, from, end) == \E i \in (from + 1)..(end - 1) : inp[i] = BANG

\* C17: on the slice and str sources parse_str returns Borrowed exactly when
\* the literal has no escape and Copied, with the result in scratch, when it
\* has one, and parse_ident returns Borrowed; on the stream source every
\* result of parse_str and parse_ident is Copied.
C17_StringResultTag ==
    \A k \in Kinds :
        LET c == readers[k]
            lit == QuotedLiteral(c.inp, last[k].from + 1, <<>>) IN
        /\ (last[k].op = "parse_str" /\ last[k].ok /\ k # "io") =>
              IF HasEscape(c.inp, last[k].from, lit.end)
              THEN last[k].tag = "Copied" /\ c.scratch = last[k].s
              ELSE last[k].tag = "Borrowed"
        /\ (last[k].op = "parse_ident" /\ last[k].ok /\ k # "io") =>
              last[k].tag = "Borrowed"
        /\ (last[k].op \in {"parse_str", "parse_ident"} /\ last[k].ok /\ k = "io") =>
              last[k].tag = "Copied"

\* C18: within one decode every string that a visitor receives holds the
\* bytes of its own literal or identifier only, never bytes that an earlier
\* parse left in the scratch buffer.
C18_ScratchIsolation ==
    [][(Len(out') = Len(out) + 1 /\ out'[Len(out')].ev = "str") =>
          LET p == Position(src)
              q == Position(src')
              s == out'[Len(out')].s IN
          IF ByteAt(src', p) = QUOTE
          THEN LET lit == QuotedLiteral(src'.inp, p + 2, <<>>) IN
               lit.st = "ok" /\ s = lit.s /\ q = lit.end
          ELSE s = Slice(src'.inp, p, q)]_vars

\* a stream decode has parsed an escaped string, then an identifier
C18_Witness ==
    /\ src.kind = "io"
    /\ target = "any"
    /\ src.inp = <<BANG, LPAREN, QUOTE, BANG, QUOTE, QUOTE, COMMA, CH_n, RPAREN>>
    /\ out = <<Ev("seq", <<>>), Ev("str", <<QUOTE>>), Ev("str", <<CH_n>>),
               Ev("end", <<>>)>>

\* The one-based indices from a to b of inp that hold an invalid byte.
InvalidIn(inp, a, b) == {i \in a..b : inp[i] = INVALID}

FirstOf(S) == CHOOSE i \in S : \A j \in S : i <= j

\* C19: when a scanned quoted string or identifier holds invalid UTF-8, the
\* parse fails with InvalidUnicode at the input offset of the first invalid
\* byte, also when escapes precede that byte in the same string.
C19_InvalidUnicodePosition ==
    \A k \in Kinds :
        LET inp == readers[k].inp
            from == last[k].from
            lit == QuotedLiteral(inp, from + 1, <<>>)
            scanned == IF last[k].op = "parse_str"
                       THEN IF lit.st = "ok" THEN InvalidIn(inp, from + 1, lit.end - 1)
                            ELSE {}
                       ELSE InvalidIn(inp, from + 1, RunEnd(inp, from)) IN
        (last[k].op \in {"parse_str", "parse_ident"} /\ scanned # {}) =>
            /\ ~last[k].ok
            /\ last[k].err.code = "InvalidUnicode"
            /\ last[k].err.position = FirstOf(scanned) - 1

--------------------------------------------------------------------------
(* Claims about termination *)

\* C20: every decode over a finite input ends with a value or an error, for
\* a visitor that asks for items until the accessor returns the end or an
\* error: wherever no step of the decode is left, the decode has returned.
C20_DecodeTerminates == ~(ENABLED Next) => result.st \in {"ok", "err"}

\* The measure behind C20: a request for the next element or key consumes at
\* least one byte, turns first from true to false, or ends the visitor's loop.
RequestsProgress ==
    [][(Visiting("seq", "next") \/ Visiting("map", "key")) =>
          LET f == stack'[Len(stack)] IN
          \/ Position(src') > Position(src)
          \/ Top.first /\ ~f.first
          \/ f.phase = "end"]_vars

--------------------------------------------------------------------------
(* Claims about the position *)

\* C21: in every state of a decode the position of the byte source is at
\* least 0 and at most the number of input bytes, it is the number of bytes
\* consumed so far (what is still to be delivered is the input from the
\* position on: no discard happens at the end of input or on an empty
\* lookahead cell), and no step of the decode decreases it.
C21_PositionInBounds ==
    /\ [](/\ 0 <= Position(src)
          /\ Position(src) <= Len(src.inp)
          /\ ToDeliver(src) = Slice(src.inp, Position(src), Len(src.inp)))
    /\ [][Position(src') >= Position(src)]_vars

\* a stream decode has consumed all six bytes of its input
C21_Witness ==
    /\ src.kind = "io"
    /\ result.st = "ok"
    /\ src.closed
    /\ Len(src.inp) = 6
    /\ Position(src) = 6
    /\ src.peeked = None

==========================================================================
